---------------------------- MODULE Spec2Model ----------------------------
(***************************************************************************)
(* Feed ingestion and normalisation pipeline of the real-estate daily      *)
(* digest: the regex Feed Parser (parseRSSFeed), the RSS adapter           *)
(* (createRSSDataSource), the Folo API adapters (RealEstate*DataSource)    *)
(* and the aggregator (dataFetchers.js).                                   *)
(*                                                                         *)
(* Time is counted in days.  A text is a string; an XML text is the        *)
(* sequence of its elements in document order, an <item>/<entry> block     *)
(* carrying the elements of its body.                                      *)
(***************************************************************************)
EXTENDS Integers, Sequences, FiniteSets, TLC

VARIABLES
    call,        \* the entry point this run invokes
    now,         \* the wall clock (new Date()), in days
    xmlText,     \* parseRSSFeed: the text given to the parser
    parsed,      \* parseRSSFeed: the outcomes of the successive calls on xmlText
    env,         \* the configuration (environment key/value pairs)
    pc,          \* an adapter's fetch: the position of the call
    idx,         \* an adapter's fetch: the loop index (feed URL or page), from 1
    allItems,    \* an adapter's fetch: the items collected so far
    publishedAfter, \* a Folo adapter's fetch: the cursor of the next page
    netLog,      \* every HTTP request issued and every sleep, in order
    rawData,     \* what the adapter's fetch returned
    unified,     \* what the adapter's transform returned
    dataSources, \* the source registry: category key -> { name, sources }
    arg,         \* the category key a single-category call is given
    aggPc,       \* the position of the aggregator's entry point
    task,        \* the fetchAndTransformDataForType calls in progress, by key
    allUnifiedData, \* fetchAllData: the mapping being assembled
    retItems     \* the array a single-category call resolved with

adapterVars == <<env, pc, idx, allItems, publishedAfter, netLog, rawData, unified>>
parserVars == <<xmlText, parsed>>
aggVars == <<dataSources, arg, aggPc, task, allUnifiedData, retItems>>
vars == <<call, now, xmlText, parsed, env, pc, idx, allItems, publishedAfter,
          netLog, rawData, unified, dataSources, arg, aggPc, task,
          allUnifiedData, retItems>>

-----------------------------------------------------------------------------
(* Bounds *)

\* publish dates range over days 1..MaxTime; the clock starts at MaxTime
MaxTime == 4
\* the clock advances at most this many days during a run
MaxTicks == 1
\* most <item>/<entry> blocks in one XML text
MaxBlocks == 2

Days == 1..(MaxTime + MaxTicks)

-----------------------------------------------------------------------------
(* Texts and dates *)

\* the date text of day t as a feed writes it (RFC 822 in <pubDate>)
FeedDate(t) == "day" \o ToString(t)

\* Date.prototype.toISOString of a valid date
toISOString(t) == "iso" \o ToString(t)

\* new Date(text): the day a date text denotes, in either notation, or an
\* Invalid Date (valid = FALSE, getTime() is NaN)
NewDate(text) ==
    IF \E t \in Days : text \in {FeedDate(t), toISOString(t)}
    THEN [valid |-> TRUE,
          time  |-> CHOOSE t \in Days : text \in {FeedDate(t), toISOString(t)}]
    ELSE [valid |-> FALSE, time |-> 0]

\* String.prototype.trim on the texts of the model
Trim(text) ==
    CASE text = " "    -> ""
      [] text = " T "  -> "T"
      [] text = " https://b.example/rss" -> "https://b.example/rss"
      [] OTHER         -> text

\* decodeHTMLEntities on the texts of the model
decodeHTMLEntities(text) ==
    CASE text = ""           -> ""
      [] text = "R&amp;D"    -> "R&D"
      [] text = "&nbsp;"     -> " "
      [] OTHER               -> text

-----------------------------------------------------------------------------
(* XML texts *)

\* one element <tag ...>text</tag>; a <link rel= href=/> carries rel and href
Elem(tag, text) ==
    [tag |-> tag, cdata |-> FALSE, text |-> text, rel |-> "", href |-> "",
     body |-> <<>>]
CData(tag, text) ==
    [tag |-> tag, cdata |-> TRUE, text |-> text, rel |-> "", href |-> "",
     body |-> <<>>]
AtomLink(rel, href) ==
    [tag |-> "link", cdata |-> FALSE, text |-> "", rel |-> rel, href |-> href,
     body |-> <<>>]
Block(tag, body) ==
    [tag |-> tag, cdata |-> FALSE, text |-> "", rel |-> "", href |-> "",
     body |-> body]

IsBlock(node) == node.tag \in {"item", "entry"}

\* the elements of a text in document order, those inside blocks included
RECURSIVE Flatten(_)
Flatten(xml) ==
    IF xml = <<>> THEN <<>>
    ELSE (IF IsBlock(Head(xml)) THEN Head(xml).body ELSE <<Head(xml)>>)
         \o Flatten(Tail(xml))

\* String.prototype.match: the position of the first match among the
\* positions that match, 0 when nothing matches
FirstIndex(hits) ==
    IF hits = {} THEN 0 ELSE CHOOSE i \in hits : \A j \in hits : i <= j

\* extractTag: the CDATA form of the tag wins, then the plain form, else ''
extractTag(xml, tagName) ==
    LET isCdata(e) == e.tag = tagName /\ e.cdata
        isPlain(e) == e.tag = tagName /\ ~IsBlock(e) /\ e.rel = "" /\ e.href = ""
        c == FirstIndex({i \in 1..Len(xml) : isCdata(xml[i])})
        p == FirstIndex({i \in 1..Len(xml) : isPlain(xml[i])})
    IN  IF c # 0 THEN Trim(xml[c].text)
        ELSE IF p # 0 THEN Trim(xml[p].text)
        ELSE ""

\* extractAtomLink: the href of the first rel="alternate" link, else of the
\* first link with an href, else ''
extractAtomLink(xml) ==
    LET isAlt(e)  == e.tag = "link" /\ e.rel = "alternate" /\ e.href # ""
        isHref(e) == e.tag = "link" /\ e.href # ""
        a == FirstIndex({i \in 1..Len(xml) : isAlt(xml[i])})
        h == FirstIndex({i \in 1..Len(xml) : isHref(xml[i])})
    IN  IF a # 0 THEN xml[a].href
        ELSE IF h # 0 THEN xml[h].href
        ELSE ""

\* a || b on strings: a unless it is empty
Or(a, b) == IF a # "" THEN a ELSE b

-----------------------------------------------------------------------------
(* parseRSSFeed *)

\* the outcome of a call: the returned items, or an exception thrown
Returned(items) == [threw |-> FALSE, items |-> items]
Thrown == [threw |-> TRUE, items |-> <<>>]

\* pubDate ? new Date(pubDate).toISOString() : new Date().toISOString()
\* toISOString throws RangeError on an Invalid Date
PubDateThrows(pubDate) == pubDate # "" /\ ~NewDate(pubDate).valid
\* the publish date always taken from the clock
PubDateIsoNow(pubDate, clock) == toISOString(clock)
PubDateIso(pubDate, clock) ==
    IF pubDate # "" THEN toISOString(NewDate(pubDate).time)
    ELSE toISOString(clock)

\* the fields read from one <item> block
ItemFields(itemXml) ==
    [title       |-> extractTag(itemXml, "title"),
     link        |-> Or(extractTag(itemXml, "link"), extractTag(itemXml, "guid")),
     description |-> Or(extractTag(itemXml, "description"),
                        extractTag(itemXml, "content:encoded")),
     pubDate     |-> Or(extractTag(itemXml, "pubDate"), extractTag(itemXml, "dc:date")),
     author      |-> Or(extractTag(itemXml, "author"), extractTag(itemXml, "dc:creator"))]

\* the fields read from one <entry> block
EntryFields(entryXml) ==
    [title       |-> extractTag(entryXml, "title"),
     link        |-> extractAtomLink(entryXml),
     description |-> Or(extractTag(entryXml, "summary"), extractTag(entryXml, "content")),
     pubDate     |-> Or(extractTag(entryXml, "published"), extractTag(entryXml, "updated")),
     author      |-> extractTag(entryXml, "name")]

\* the block is pushed when it has a title or a link
EmitsEither(f) == f.title # "" \/ f.link # ""

\* the block is pushed when it has a title and a link
Emits(f) == f.title # "" /\ f.link # ""

\* the item pushed for a block
ParsedItem(f, clock) ==
    [title       |-> decodeHTMLEntities(f.title),
     link        |-> f.link,
     description |-> f.description,
     pubDate     |-> PubDateIso(f.pubDate, clock),
     author      |-> decodeHTMLEntities(f.author)]

Fields(block) ==
    IF block.tag = "item" THEN ItemFields(block.body) ELSE EntryFields(block.body)

\* one while loop of the parser over the blocks of one tag, in document order
RECURSIVE ParseBlocks(_, _, _, _)

\* the loop body for a block with fields f, and the rest of the loop
ParseBlock(f, rest, tag, items, clock) ==
    IF ~Emits(f) THEN ParseBlocks(rest, tag, items, clock)
    ELSE IF PubDateThrows(f.pubDate) THEN Thrown
    ELSE ParseBlocks(rest, tag, Append(items, ParsedItem(f, clock)), clock)

ParseBlocks(xml, tag, items, clock) ==
    IF xml = <<>> THEN Returned(items)
    ELSE IF Head(xml).tag # tag THEN ParseBlocks(Tail(xml), tag, items, clock)
    ELSE ParseBlock(Fields(Head(xml)), Tail(xml), tag, items, clock)

\* if (items.length === 0): the Atom entries when the RSS loop pushed nothing
AtomFallback(rss, xml, clock) ==
    IF rss.threw THEN Thrown
    ELSE IF rss.items = <<>> THEN ParseBlocks(xml, "entry", <<>>, clock)
    ELSE rss

\* parseRSSFeed: the RSS 2.0 items, and the Atom entries when there are none
parseRSSFeed(xml, clock) ==
    AtomFallback(ParseBlocks(xml, "item", <<>>, clock), xml, clock)

-----------------------------------------------------------------------------
(* helpers.js *)

\* isDateWithinLastDays(dateString, days): the date is at most `days` days
\* before the clock; an Invalid Date is never within the window
isDateWithinLastDays(dateString, days, clock) ==
    /\ NewDate(dateString).valid
    /\ clock - NewDate(dateString).time <= days

\* stripHtml(html).substring(0, 500) on the texts of the model
stripHtml(html) ==
    CASE html = "<p>body</p>" -> "body"
      [] OTHER                -> html

-----------------------------------------------------------------------------
(* Array.prototype.sort *)

\* the comparator with its operands swapped: ascending
ByDateAsc(a, b) ==
    IF NewDate(a).valid /\ NewDate(b).valid
    THEN NewDate(a).time - NewDate(b).time
    ELSE 0

\* (a, b) => new Date(b) - new Date(a): positive when a belongs after b; a NaN
\* result counts as 0
ByDateDesc(a, b) ==
    IF NewDate(a).valid /\ NewDate(b).valid
    THEN NewDate(b).time - NewDate(a).time
    ELSE 0

\* the sorted order of indices `order` with index i put after the last index
\* it does not belong before (a stable sort)
RECURSIVE InsertSorted(_, _, _)
InsertSorted(order, i, dates) ==
    IF order = <<>> THEN <<i>>
    ELSE IF ByDateDesc(dates[Head(order)], dates[i]) <= 0
         THEN <<Head(order)>> \o InsertSorted(Tail(order), i, dates)
         ELSE <<i>> \o order

\* the order in which sort leaves the first n elements of an array with
\* these dates
RECURSIVE SortOrder(_, _)
SortOrder(dates, n) ==
    IF n = 0 THEN <<>>
    ELSE InsertSorted(SortOrder(dates, n - 1), n, dates)

\* array.sort(comparator) with the comparator ByDateDesc on the named field
SortByDate(s, field) ==
    LET dates == [i \in 1..Len(s) |-> s[i][field]]
        order == SortOrder(dates, Len(s))
    IN  [k \in 1..Len(s) |-> s[order[k]]]

-----------------------------------------------------------------------------
(* Configuration and network *)

\* a comma-separated value is the sequence of its pieces; <<>> is an unset key
\* and <<"">> the empty string, the two falsy values
Falsy(value) == value \in {<<>>, <<"">>}

\* rssUrls.split(',').map(url => url.trim()).filter(url => url)
RECURSIVE SplitUrls(_)
SplitUrls(pieces) ==
    IF pieces = <<>> THEN <<>>
    ELSE (IF Trim(Head(pieces)) = "" THEN <<>> ELSE <<Trim(Head(pieces))>>)
         \o SplitUrls(Tail(pieces))

\* new URL(rssUrl).hostname
Hostname(url) ==
    CASE url = "https://a.example/feed" -> "a.example"
      [] url = "https://b.example/rss"  -> "b.example"
      [] OTHER                          -> "localhost"

\* what the network answers to one request: a success status with a body, a
\* non-success status, a transport error (fetch rejects), or a body that cannot
\* be read (response.text() / response.json() rejects)
Response(kind, body, data) == [kind |-> kind, body |-> body, data |-> data]
HttpFailure == Response("status", <<>>, <<>>)
TransportError == Response("error", <<>>, <<>>)
BodyError == Response("bodyError", <<>>, <<>>)

\* one entry of netLog: a request issued (GET, POST), a sleep, or the answer
\* to the last request with the time it arrived
NoResponse == Response("none", <<>>, <<>>)
Issued(op, url, after) ==
    [op |-> op, url |-> url, after |-> after, resp |-> NoResponse, at |-> 0]
Slept == Issued("sleep", "", "")
Answered(url, resp, at) ==
    [op |-> "response", url |-> url, after |-> "", resp |-> resp, at |-> at]

-----------------------------------------------------------------------------
(* The XML texts given to the parser *)

\* the elements a field contributes to a block body: none when the text is absent
Opt(tag, text) == IF text = "" THEN <<>> ELSE <<Elem(tag, text)>>

ParserDates == {"", "yesterday-ish", FeedDate(1)}

RssBlocks ==
    { Block("item", Opt("title", t) \o Opt("link", l) \o Opt("guid", g) \o Opt("pubDate", d)) :
        t \in {"", "T"}, l \in {"", "L"}, g \in {"", "G"}, d \in ParserDates }

AtomBlocks ==
    { Block("entry", Opt("title", t)
                     \o (IF h = "" THEN <<>> ELSE <<AtomLink("alternate", h)>>)
                     \o Opt("published", d)) :
        t \in {"", "T"}, h \in {"", "L"}, d \in ParserDates }

RECURSIVE SeqsUpTo(_, _)
SeqsUpTo(S, n) ==
    IF n = 0 THEN {<<>>}
    ELSE LET shorter == SeqsUpTo(S, n - 1)
         IN  shorter \cup {Append(s, x) : s \in shorter, x \in S}

ParserTexts == SeqsUpTo(RssBlocks \cup AtomBlocks, MaxBlocks)

-----------------------------------------------------------------------------
(* The feeds the network serves *)

FeedDates == {"", "yesterday-ish", FeedDate(1), FeedDate(MaxTime - 1)}

FeedBlocks ==
    { Block("item", <<Elem("title", "T"), Elem("link", "L")>> \o Opt("pubDate", d)) :
        d \in FeedDates }

FeedBodies ==
    SeqsUpTo(FeedBlocks, MaxBlocks)
    \cup { <<Elem("title", "R&amp;D"),
             Block("item", <<CData("title", " T "), Elem("guid", "G"),
                             Elem("author", a), Elem("dc:date", FeedDate(MaxTime))>>)>> :
             a \in {"", "A"} }

RssResponses ==
    {HttpFailure, TransportError, BodyError}
    \cup {Response("ok", body, <<>>) : body \in FeedBodies}

RssUrlConfigs ==
    { <<>>, <<" ">>, <<"https://a.example/feed">>,
      <<"https://a.example/feed", "", " https://b.example/rss">> }

-----------------------------------------------------------------------------
(* The pages the Folo API serves *)

\* one element of data.data: { entries: {...}, feeds: { title, url } }
ApiEntry(publishedAt, author, feedTitle) ==
    [id |-> "e" \o publishedAt \o author, url |-> "https://x.example/post",
     title |-> "T", content |-> "<p>body</p>",
     publishedAt |-> publishedAt, author |-> author,
     feedTitle |-> feedTitle, feedUrl |-> "https://x.example/feed"]

ApiEntries ==
    { ApiEntry(toISOString(t), "A", "F") : t \in {1, MaxTime - 1} }
    \cup { ApiEntry(toISOString(MaxTime), "", f) : f \in {"", "F"} }

ApiResponses ==
    {HttpFailure, TransportError, BodyError}
    \cup {Response("ok", <<>>, data) : data \in SeqsUpTo(ApiEntries, MaxBlocks)}

-----------------------------------------------------------------------------
(* createRSSDataSource *)

\* RealEstateNewsSource = createRSSDataSource('news', ..., 'RSS_REALESTATE_NEWS')
RssSourceName == "loushi zixun"

\* parseInt(env.RSS_FILTER_DAYS || '2', 10)
RssFilterDays == 2

\* generateItemId(link): a deterministic hash of the link
generateItemId(link) == "#" \o link

\* the filter and the forEach of the loop body: the parsed items within the
\* recency window, each given its source and its id
LabelItems(items, feedTitle, clock) ==
    LET keep(item) == isDateWithinLastDays(item.pubDate, RssFilterDays, clock)
        label(item) ==
            [title |-> item.title, link |-> item.link,
             description |-> item.description, pubDate |-> item.pubDate,
             author |-> item.author,
             source |-> decodeHTMLEntities(feedTitle),
             id |-> generateItemId(item.link)]
    IN  [i \in 1..Len(SelectSeq(items, keep)) |-> label(SelectSeq(items, keep)[i])]

\* the try block after parseRSSFeed(xmlText) has settled as `items`
AfterParse(items, feedTitle, clock) ==
    IF items.threw THEN Thrown
    ELSE Returned(LabelItems(items.items, feedTitle, clock))

\* the try block of the loop body for one feed whose status is a success:
\* the items it pushes to allItems, or an exception caught by the loop
ProcessFeed(resp, rssUrl, clock) ==
    IF resp.kind \in {"error", "bodyError"} THEN Thrown
    ELSE AfterParse(parseRSSFeed(resp.body, clock),
                    Or(extractTag(Flatten(resp.body), "title"), Hostname(rssUrl)),
                    clock)

\* one iteration pushing each item as soon as it is parsed: a feed whose
\* parsing throws has added the items of the blocks before the throw
FeedItemsEager(resp, rssUrl, clock) ==
    IF resp.kind # "ok" THEN <<>>
    ELSE LET bad == FirstIndex({k \in 1..Len(resp.body) :
                        /\ IsBlock(resp.body[k]) /\ Emits(Fields(resp.body[k]))
                        /\ PubDateThrows(Fields(resp.body[k]).pubDate)})
             read == IF bad = 0 THEN resp.body ELSE SubSeq(resp.body, 1, bad - 1)
         IN  ProcessFeed(Response("ok", read, <<>>), rssUrl, clock).items

\* what one iteration of the loop adds to allItems: nothing on a non-success
\* status (continue) or on a caught exception
FeedItems(resp, rssUrl, clock) ==
    IF resp.kind = "status" THEN <<>> ELSE ProcessFeed(resp, rssUrl, clock).items

RssPubDate == "pubDate"

\* the whole loop over the URLs, resps[i] being the answer to the i-th request
RECURSIVE RssCollect(_, _, _)
RssCollect(urls, resps, clock) ==
    IF urls = <<>> THEN <<>>
    ELSE FeedItems(Head(resps), Head(urls), clock)
         \o RssCollect(Tail(urls), Tail(resps), clock)

\* fetch(env) as a whole, for the value rssUrls of the adapter's key
rssFetch(rssUrls, resps, clock) ==
    IF Falsy(rssUrls) THEN [title |-> "", items |-> <<>>]
    ELSE [title |-> RssSourceName,
          items |-> SortByDate(RssCollect(SplitUrls(rssUrls), resps, clock), RssPubDate)]

\* transform(rawData, dataSourceType) of the RSS adapter
RssAuthors(item) == Or(item.author, "weizhi")
RssTransform(raw, dataSourceType) ==
    [i \in 1..Len(raw.items) |->
        LET item == raw.items[i]
        IN  [id |-> item.id, type |-> dataSourceType, url |-> item.link,
             title |-> item.title,
             description |-> stripHtml(item.description),
             published_date |-> item.pubDate,
             authors |-> RssAuthors(item),
             source |-> Or(item.source, RssSourceName),
             content_html |-> item.description]]

urlList == SplitUrls(env.RSS_URLS)

\* fetch(env) up to the loop: a falsy URL list returns { items: [] } at once
RssFetchStart ==
    /\ call = "rss" /\ pc = "start"
    /\ IF Falsy(env.RSS_URLS)
       THEN /\ rawData' = [title |-> "", items |-> <<>>]
            /\ pc' = "returned"
       ELSE /\ pc' = "loop"
            /\ UNCHANGED rawData
    /\ UNCHANGED <<call, now, parserVars, aggVars, env, idx, allItems, publishedAfter,
                   netLog, unified>>

\* the loop issues the GET of the next feed URL
RssRequest ==
    /\ call = "rss" /\ pc = "loop" /\ idx <= Len(urlList)
    /\ netLog' = Append(netLog, Issued("GET", urlList[idx], ""))
    /\ pc' = "await"
    /\ UNCHANGED <<call, now, parserVars, aggVars, env, idx, allItems, publishedAfter,
                   rawData, unified>>

\* the rest of the loop body once the request has settled
RssHandle(resp) ==
    /\ netLog' = Append(netLog, Answered(urlList[idx], resp, now))
    /\ IF resp.kind = "status"
       THEN \* continue: the sleep at the end of the body is skipped
            /\ idx' = idx + 1
            /\ pc' = "loop"
            /\ UNCHANGED allItems
       ELSE /\ allItems' = allItems \o FeedItems(resp, urlList[idx], now)
            /\ pc' = "sleep"
            /\ UNCHANGED idx

RssResponse ==
    /\ call = "rss" /\ pc = "await"
    /\ \E resp \in RssResponses : RssHandle(resp)
    /\ UNCHANGED <<call, now, parserVars, aggVars, env, publishedAfter, rawData, unified>>

\* await sleep(500 + Math.random() * 1000), then the next iteration
RssSleep ==
    /\ call = "rss" /\ pc = "sleep"
    /\ netLog' = Append(netLog, Slept)
    /\ idx' = idx + 1
    /\ pc' = "loop"
    /\ UNCHANGED <<call, now, parserVars, aggVars, env, allItems, publishedAfter,
                   rawData, unified>>

\* after the loop: sort by publish date and return
RssReturn ==
    /\ call = "rss" /\ pc = "loop" /\ idx > Len(urlList)
    /\ rawData' = [title |-> RssSourceName, items |-> SortByDate(allItems, RssPubDate)]
    /\ pc' = "returned"
    /\ UNCHANGED <<call, now, parserVars, aggVars, env, idx, allItems, publishedAfter,
                   netLog, unified>>

\* dataSource.transform(rawData, sourceType) on what fetch returned
RssTransformStep ==
    /\ call = "rss" /\ pc = "returned"
    /\ unified' = RssTransform(rawData, "news")
    /\ pc' = "done"
    /\ UNCHANGED <<call, now, parserVars, aggVars, env, idx, allItems, publishedAfter,
                   netLog, rawData>>

-----------------------------------------------------------------------------
(* RealEstateNewsDataSource (the Folo API adapters) *)

FoloTitle == "loushi zixun"

\* parseInt(env.REALESTATE_NEWS_FETCH_PAGES || '2', 10)
FoloDefaultPages == 2
parseIntPages(text) ==
    CASE text = ""  -> FoloDefaultPages
      [] text = "1" -> 1
      [] text = "2" -> 2
      [] OTHER      -> 0

\* parseInt(env.FOLO_FILTER_DAYS || '1', 10)
FoloFilterDays == 1

fetchPages == parseIntPages(env.FETCH_PAGES)

\* the raw item pushed for one entry of a page
FoloRawItem(entry) ==
    [id |-> entry.id, url |-> entry.url, title |-> entry.title,
     content_html |-> entry.content,
     date_published |-> entry.publishedAt,
     authors |-> <<[name |-> Or(entry.author, entry.feedTitle)]>>,
     source |-> entry.feedTitle,
     feed_url |-> entry.feedUrl]

\* the raw items a page with these entries adds to allItems
FoloPageItems(data, clock) ==
    LET keep(entry) == isDateWithinLastDays(entry.publishedAt, FoloFilterDays, clock)
        filteredItems == SelectSeq(data, keep)
    IN  [i \in 1..Len(filteredItems) |-> FoloRawItem(filteredItems[i])]

\* names.join(', ')
RECURSIVE Join(_)
Join(names) ==
    IF names = <<>> THEN ""
    ELSE IF Len(names) = 1 THEN names[1]
    ELSE names[1] \o ", " \o Join(Tail(names))

\* item.authors ? item.authors.map(author => author.name).join(', ') : sentinel
FoloAuthors(item) ==
    IF "authors" \in DOMAIN item
    THEN Join([i \in 1..Len(item.authors) |-> item.authors[i].name])
    ELSE "weizhi laiyuan"

\* transform(rawData, sourceType) of a Folo adapter
FoloTransform(raw, sourceType) ==
    [i \in 1..Len(raw.items) |->
        LET item == raw.items[i]
        IN  [id |-> item.id, type |-> sourceType, url |-> item.url,
             title |-> item.title,
             description |-> stripHtml(item.content_html),
             published_date |-> item.date_published,
             authors |-> FoloAuthors(item),
             source |-> Or(item.source, FoloTitle),
             content_html |-> item.content_html]]

\* fetch without the list-id guard
FoloFetchStartUnguarded ==
    /\ call = "folo" /\ pc = "start"
    /\ pc' = "loop"
    /\ UNCHANGED <<call, now, parserVars, aggVars, env, idx, allItems, publishedAfter,
                   netLog, rawData, unified>>

\* fetch(env, foloCookie) up to the loop: no list id returns no items at once
FoloFetchStart ==
    /\ call = "folo" /\ pc = "start"
    /\ IF env.LIST_ID = ""
       THEN /\ rawData' = [title |-> FoloTitle, items |-> <<>>]
            /\ pc' = "returned"
       ELSE /\ pc' = "loop"
            /\ UNCHANGED rawData
    /\ UNCHANGED <<call, now, parserVars, aggVars, env, idx, allItems, publishedAfter,
                   netLog, unified>>

\* the loop issues the POST of the next page, with the cursor if there is one
FoloRequest ==
    /\ call = "folo" /\ pc = "loop" /\ idx <= fetchPages
    /\ netLog' = Append(netLog, Issued("POST", env.LIST_ID, publishedAfter))
    /\ pc' = "await"
    /\ UNCHANGED <<call, now, parserVars, aggVars, env, idx, allItems, publishedAfter,
                   rawData, unified>>

\* the page has entries: they are filtered and pushed, the cursor moves
PageHasData(resp) == resp.kind = "ok" /\ Len(resp.data) > 0

\* the loop body with the breaks missing: a failed or empty page goes on to
\* the sleep and the next page
FoloHandleNoBreak(resp) ==
    /\ netLog' = Append(netLog, Answered(env.LIST_ID, resp, now))
    /\ pc' = "sleep"
    /\ IF PageHasData(resp)
       THEN /\ allItems' = allItems \o FoloPageItems(resp.data, now)
            /\ publishedAfter' = resp.data[Len(resp.data)].publishedAt
       ELSE UNCHANGED <<allItems, publishedAfter>>

\* the loop body breaking when no entry of the page is within the recency
\* window
FoloHandleStopOnFiltered(resp) ==
    /\ netLog' = Append(netLog, Answered(env.LIST_ID, resp, now))
    /\ IF PageHasData(resp) /\ FoloPageItems(resp.data, now) # <<>>
       THEN /\ allItems' = allItems \o FoloPageItems(resp.data, now)
            /\ publishedAfter' = resp.data[Len(resp.data)].publishedAt
            /\ pc' = "sleep"
       ELSE /\ pc' = "break"
            /\ UNCHANGED <<allItems, publishedAfter>>

\* the loop body requesting the same page again after a failure
FoloHandleRetry(resp) ==
    /\ netLog' = Append(netLog, Answered(env.LIST_ID, resp, now))
    /\ IF PageHasData(resp)
       THEN /\ allItems' = allItems \o FoloPageItems(resp.data, now)
            /\ publishedAfter' = resp.data[Len(resp.data)].publishedAt
            /\ pc' = "sleep"
       ELSE /\ pc' = IF resp.kind = "ok" THEN "break" ELSE "loop"
            /\ UNCHANGED <<allItems, publishedAfter>>

\* the rest of the loop body once the request has settled
FoloHandle(resp) ==
    /\ netLog' = Append(netLog, Answered(env.LIST_ID, resp, now))
    /\ IF PageHasData(resp)
       THEN /\ allItems' = allItems \o FoloPageItems(resp.data, now)
            /\ publishedAfter' = resp.data[Len(resp.data)].publishedAt
            /\ pc' = "sleep"
       ELSE \* a non-success status, an exception or an empty page: break
            /\ pc' = "break"
            /\ UNCHANGED <<allItems, publishedAfter>>

FoloResponse ==
    /\ call = "folo" /\ pc = "await"
    /\ \E resp \in ApiResponses : FoloHandle(resp)
    /\ UNCHANGED <<call, now, parserVars, aggVars, env, idx, rawData, unified>>

\* await sleep(Math.random() * 3000 + 1000), then the next iteration
FoloSleep ==
    /\ call = "folo" /\ pc = "sleep"
    /\ netLog' = Append(netLog, Slept)
    /\ idx' = idx + 1
    /\ pc' = "loop"
    /\ UNCHANGED <<call, now, parserVars, aggVars, env, allItems, publishedAfter,
                   rawData, unified>>

\* after the loop, or after a break: return what was collected
FoloReturn ==
    /\ call = "folo"
    /\ pc = "break" \/ (pc = "loop" /\ idx > fetchPages)
    /\ rawData' = [title |-> FoloTitle, items |-> allItems]
    /\ pc' = "returned"
    /\ UNCHANGED <<call, now, parserVars, aggVars, env, idx, allItems, publishedAfter,
                   netLog, unified>>

\* dataSource.transform(rawData, sourceType) on what fetch returned
FoloTransformStep ==
    /\ call = "folo" /\ pc = "returned"
    /\ unified' = FoloTransform(rawData, "realestate-news")
    /\ pc' = "done"
    /\ UNCHANGED <<call, now, parserVars, aggVars, env, idx, allItems, publishedAfter,
                   netLog, rawData>>

-----------------------------------------------------------------------------
(* dataFetchers.js *)

\* a registered source: an RSS adapter reading its own URL key, or an adapter
\* whose fetch rejects ("rejects") or whose transform throws ("throws")
Source(kind, rssUrls) == [kind |-> kind, rssUrls |-> rssUrls]
RssA == Source("rss", <<"https://a.example/feed">>)
RssB == Source("rss", <<"https://b.example/rss">>)

\* one entry of the registry; an entry may lack its sources array
Entry(name, sources) == [name |-> name, isArray |-> TRUE, sources |-> sources]
NoSources(name) == [name |-> name, isArray |-> FALSE, sources |-> <<>>]

\* the registry as dataFetchers.js exports it
Registered ==
    [news    |-> Entry("loushi zixun", <<RssA>>),
     finance |-> Entry("caijing zixun", <<RssA>>),
     policy  |-> Entry("zhengce dongtai", <<RssA>>),
     general |-> Entry("zonghe zixun", <<RssA>>)]

\* registries with several sources per category, failing ones among them
Registries ==
    { Registered,
      [news   |-> Entry("loushi zixun", <<RssA, Source("rejects", <<>>), RssB>>),
       policy |-> Entry("zhengce dongtai", <<Source("throws", <<>>), RssA>>)],
      [news   |-> Entry("loushi zixun", <<RssB, RssA, Source("throws", <<>>)>>),
       papers |-> NoSources("papers")] }

CategoryKeys == {"news", "finance", "policy", "general", "papers", "twitter"}

\* what the network serves to a source run by the aggregator
AggBodies ==
    { <<>>,
      <<Elem("title", "Feed A"),
        Block("item", <<Elem("title", "T"), Elem("link", "L1"),
                        Elem("pubDate", FeedDate(MaxTime - 1))>>)>>,
      <<Elem("title", "Feed B"),
        Block("item", <<Elem("title", "T"), Elem("link", "L2"),
                        Elem("pubDate", FeedDate(MaxTime - 2))>>),
        Block("item", <<Elem("title", "T"), Elem("link", "L3"),
                        Elem("pubDate", FeedDate(MaxTime))>>)>> }
AggResponses == {HttpFailure} \cup {Response("ok", body, <<>>) : body \in AggBodies}

\* the try block for one source: fetch, then transform; what it concatenates,
\* or an exception for the catch
SourceRun(dataSource, sourceType, resp, clock) ==
    IF dataSource.kind \in {"rejects", "throws"} THEN Thrown
    ELSE Returned(RssTransform(rssFetch(dataSource.rssUrls, <<resp>>, clock), sourceType))

PublishedDate == "published_date"

\* the state of one fetchAndTransformDataForType(sourceType) call
NewTask == [pc |-> "start", i |-> 1, acc |-> <<>>, got |-> <<>>, out |-> <<>>]

\* const sources = dataSources[sourceType].sources, and the guard after it
TaskStart(c) ==
    /\ c \in DOMAIN task /\ task[c].pc = "start"
    /\ IF c \notin DOMAIN dataSources
       THEN \* dataSources[sourceType] is undefined: reading .sources throws
            task' = [task EXCEPT ![c].pc = "rejected"]
       ELSE IF ~dataSources[c].isArray
       THEN task' = [task EXCEPT ![c].pc = "returned", ![c].out = <<>>]
       ELSE task' = [task EXCEPT ![c].pc = "loop"]
    /\ UNCHANGED <<call, now, parserVars, adapterVars, dataSources, arg, aggPc,
                   allUnifiedData, retItems>>

\* the loop body without its try/catch: an exception rejects the call
TaskSourceUncaught(c) ==
    /\ c \in DOMAIN task /\ task[c].pc = "loop"
    /\ task[c].i <= Len(dataSources[c].sources)
    /\ \E resp \in AggResponses :
         \E run \in {SourceRun(dataSources[c].sources[task[c].i], c, resp, now)} :
             task' = [task EXCEPT ![c].i = @ + 1,
                                  ![c].pc = IF run.threw THEN "rejected" ELSE @,
                                  ![c].acc = IF run.threw THEN @ ELSE @ \o run.items,
                                  ![c].got = Append(@, run)]
    /\ UNCHANGED <<call, now, parserVars, adapterVars, dataSources, arg, aggPc,
                   allUnifiedData, retItems>>

\* one iteration of the loop over the sources
TaskSource(c) ==
    /\ c \in DOMAIN task /\ task[c].pc = "loop"
    /\ task[c].i <= Len(dataSources[c].sources)
    /\ \E resp \in AggResponses :
         \E run \in {SourceRun(dataSources[c].sources[task[c].i], c, resp, now)} :
             task' = [task EXCEPT ![c].i = @ + 1,
                                  ![c].acc = IF run.threw THEN @ ELSE @ \o run.items,
                                  ![c].got = Append(@, run)]
    /\ UNCHANGED <<call, now, parserVars, adapterVars, dataSources, arg, aggPc,
                   allUnifiedData, retItems>>

\* after the loop: sort by published_date descending and return
TaskReturn(c) ==
    /\ c \in DOMAIN task /\ task[c].pc = "loop"
    /\ task[c].i > Len(dataSources[c].sources)
    /\ task' = [task EXCEPT ![c].pc = "returned",
                            ![c].out = SortByDate(task[c].acc, PublishedDate)]
    /\ UNCHANGED <<call, now, parserVars, adapterVars, dataSources, arg, aggPc,
                   allUnifiedData, retItems>>

\* fetchAllData: the for-in loop launches one call per registered key
FetchAllDataLaunch ==
    /\ call = "fetchAllData" /\ aggPc = "call"
    /\ task' = [c \in DOMAIN dataSources |-> NewTask]
    /\ aggPc' = "waiting"
    /\ UNCHANGED <<call, now, parserVars, adapterVars, dataSources, arg,
                   allUnifiedData, retItems>>

\* a || b on mappings: m with key c set to value v
Store(m, c, v) == [k \in DOMAIN m \cup {c} |-> IF k = c THEN v ELSE m[k]]

\* .then(data => { allUnifiedData[sourceType] = data; })
ThenStore(c) ==
    /\ call = "fetchAllData" /\ aggPc = "waiting"
    /\ c \in DOMAIN task /\ task[c].pc = "returned"
    /\ allUnifiedData' = Store(allUnifiedData, c, task[c].out)
    /\ task' = [task EXCEPT ![c].pc = "stored"]
    /\ UNCHANGED <<call, now, parserVars, adapterVars, dataSources, arg, aggPc,
                   retItems>>

\* the return without the wait for every promise: as soon as one has settled
FetchAllDataReturnEarly ==
    /\ call = "fetchAllData" /\ aggPc = "waiting"
    /\ \E c \in DOMAIN task : task[c].pc \in {"stored", "rejected"}
    /\ aggPc' = "resolved"
    /\ UNCHANGED <<call, now, parserVars, adapterVars, dataSources, arg, task,
                   allUnifiedData, retItems>>

\* await Promise.allSettled(fetchPromises); return allUnifiedData
FetchAllDataReturn ==
    /\ call = "fetchAllData" /\ aggPc = "waiting"
    /\ \A c \in DOMAIN task : task[c].pc \in {"stored", "rejected"}
    /\ aggPc' = "resolved"
    /\ UNCHANGED <<call, now, parserVars, adapterVars, dataSources, arg, task,
                   allUnifiedData, retItems>>

\* fetchDataByCategory(env, category): an unknown key returns [] at once
FetchDataByCategoryCall ==
    /\ call = "fetchDataByCategory" /\ aggPc = "call"
    /\ IF arg \notin DOMAIN dataSources
       THEN /\ retItems' = <<>>
            /\ aggPc' = "resolved"
            /\ UNCHANGED task
       ELSE /\ task' = [c \in {arg} |-> NewTask]
            /\ aggPc' = "waiting"
            /\ UNCHANGED retItems
    /\ UNCHANGED <<call, now, parserVars, adapterVars, dataSources, arg,
                   allUnifiedData>>

\* fetchAndTransformDataForType(sourceType, env, foloCookie) called directly
FetchAndTransformCall ==
    /\ call = "fetchAndTransformDataForType" /\ aggPc = "call"
    /\ task' = [c \in {arg} |-> NewTask]
    /\ aggPc' = "waiting"
    /\ UNCHANGED <<call, now, parserVars, adapterVars, dataSources, arg,
                   allUnifiedData, retItems>>

\* a single-category call settles as its fetchAndTransformDataForType does
SingleSettle ==
    /\ call \in {"fetchDataByCategory", "fetchAndTransformDataForType"}
    /\ aggPc = "waiting"
    /\ task[arg].pc \in {"returned", "rejected"}
    /\ IF task[arg].pc = "returned"
       THEN /\ retItems' = task[arg].out
            /\ aggPc' = "resolved"
       ELSE /\ aggPc' = "rejected"
            /\ UNCHANGED retItems
    /\ UNCHANGED <<call, now, parserVars, adapterVars, dataSources, arg, task,
                   allUnifiedData>>

-----------------------------------------------------------------------------
(* Initial states *)

Env(urls, listId, pages) == [RSS_URLS |-> urls, LIST_ID |-> listId, FETCH_PAGES |-> pages]

AdapterIdle ==
    /\ env = Env(<<>>, "", "")
    /\ pc = "idle"
    /\ idx = 1
    /\ allItems = <<>>
    /\ publishedAfter = ""
    /\ netLog = <<>>
    /\ rawData = [title |-> "", items |-> <<>>]
    /\ unified = <<>>

ParserIdle ==
    /\ xmlText = <<>>
    /\ parsed = <<>>

AggIdle ==
    /\ dataSources = Registered
    /\ arg = ""
    /\ aggPc = "idle"
    /\ task = <<>>
    /\ allUnifiedData = <<>>
    /\ retItems = <<>>

InitRss ==
    /\ call = "rss"
    /\ now = MaxTime
    /\ ParserIdle
    /\ AggIdle
    /\ env \in {Env(urls, "", "") : urls \in RssUrlConfigs}
    /\ pc = "start"
    /\ idx = 1
    /\ allItems = <<>>
    /\ publishedAfter = ""
    /\ netLog = <<>>
    /\ rawData = [title |-> "", items |-> <<>>]
    /\ unified = <<>>

InitFolo ==
    /\ call = "folo"
    /\ now = MaxTime
    /\ ParserIdle
    /\ AggIdle
    /\ env \in {Env(<<>>, listId, pages) : listId \in {"", "list-1"}, pages \in {"", "1"}}
    /\ pc = "start"
    /\ idx = 1
    /\ allItems = <<>>
    /\ publishedAfter = ""
    /\ netLog = <<>>
    /\ rawData = [title |-> "", items |-> <<>>]
    /\ unified = <<>>

InitAgg ==
    /\ call \in {"fetchAllData", "fetchDataByCategory", "fetchAndTransformDataForType"}
    /\ now = MaxTime
    /\ ParserIdle
    /\ AdapterIdle
    /\ dataSources \in Registries
    /\ arg \in (IF call = "fetchAllData" THEN {""} ELSE CategoryKeys)
    /\ aggPc = "call"
    /\ task = <<>>
    /\ allUnifiedData = <<>>
    /\ retItems = <<>>

-----------------------------------------------------------------------------
(* Entry points *)

InitParser ==
    /\ call = "parseRSSFeed"
    /\ now = MaxTime
    /\ xmlText \in ParserTexts
    /\ parsed = <<>>
    /\ AdapterIdle
    /\ AggIdle

\* the outcome of a call made at time `at`
Called(outcome, at) == [at |-> at, threw |-> outcome.threw, items |-> outcome.items]

\* one call of parseRSSFeed(xmlText)
ParseCall ==
    /\ call = "parseRSSFeed"
    /\ Len(parsed) < 2
    /\ parsed' = Append(parsed, Called(parseRSSFeed(xmlText, now), now))
    /\ UNCHANGED <<call, now, xmlText, adapterVars, aggVars>>

\* time passes while a call is suspended at an await, and between two calls
\* of the parser
Tick ==
    /\ now < MaxTime + MaxTicks
    /\ \/ call = "parseRSSFeed" /\ Len(parsed) = 1
       \/ pc \in {"await", "sleep"}
       \/ aggPc = "waiting"
    /\ now' = now + 1
    /\ UNCHANGED <<call, xmlText, parsed, adapterVars, aggVars>>

Init == InitParser \/ InitRss \/ InitFolo \/ InitAgg

Next ==
    \/ ParseCall
    \/ RssFetchStart \/ RssRequest \/ RssResponse \/ RssSleep \/ RssReturn
    \/ RssTransformStep
    \/ FoloFetchStart \/ FoloRequest \/ FoloResponse \/ FoloSleep \/ FoloReturn
    \/ FoloTransformStep
    \/ FetchAllDataLaunch \/ FetchDataByCategoryCall \/ FetchAndTransformCall
    \/ \E c \in CategoryKeys : TaskStart(c) \/ TaskSource(c) \/ TaskReturn(c) \/ ThenStore(c)
    \/ FetchAllDataReturn \/ SingleSettle
    \/ Tick

Spec == Init /\ [][Next]_vars

-----------------------------------------------------------------------------
(* Properties *)

Range(s) == {s[i] : i \in 1..Len(s)}

IsAnswer(e) == e.op = "response"
IsRequest(e) == e.op \in {"GET", "POST"}
\* the answers received so far, and the requests issued so far, in order
Answers == SelectSeq(netLog, IsAnswer)
Requests == SelectSeq(netLog, IsRequest)

FetchReturned == pc \in {"returned", "done"}

\* a block whose date element, if any, can be read as a date
WellDated(node) == IsBlock(node) => ~PubDateThrows(Fields(node).pubDate)

\* the items of the feed answered by e that lie within the recency window,
\* the blocks of unreadable date left aside
SurvivorsOfFeed(e) ==
    ProcessFeed(Response("ok", SelectSeq(e.resp.body, WellDated), <<>>), e.url, e.at).items

\* C1: in the RSS adapter's fetch the failure of one URL (non-success status,
\* transport error) never aborts the others: the returned items contain every
\* item within the recency window of every feed that did not fail.
C1_EveryOkFeedKept ==
    (call = "rss" /\ FetchReturned /\ ~Falsy(env.RSS_URLS)) =>
        \A k \in 1..Len(Answers) :
            Answers[k].resp.kind = "ok" =>
                Range(SurvivorsOfFeed(Answers[k])) \subseteq Range(rawData.items)

\* the index of the first answer that ends the pagination (a non-success
\* status, an exception, an empty data list), 0 when there is none
FirstStop ==
    LET stops == {k \in 1..Len(Answers) : ~PageHasData(Answers[k].resp)}
    IN  IF stops = {} THEN 0 ELSE CHOOSE k \in stops : \A j \in stops : k <= j

\* the ids of the entries of page e that lie within the recency window
SurvivingIds(e) ==
    LET keep(entry) == isDateWithinLastDays(entry.publishedAt, FoloFilterDays, e.at)
        kept == SelectSeq(e.resp.data, keep)
    IN  [i \in 1..Len(kept) |-> kept[i].id]

\* the ids of the surviving entries of the first n pages, in order
RECURSIVE IdsOfPages(_)
IdsOfPages(n) == IF n = 0 THEN <<>> ELSE IdsOfPages(n - 1) \o SurvivingIds(Answers[n])

ItemIds(items) == [i \in 1..Len(items) |-> items[i].id]

\* C2: in a Folo adapter's fetch, once page k is empty or its request fails, no
\* later page is requested, and the result holds the items within the recency
\* window of pages 1..k-1.
C2_StopKeepsPartial ==
    call = "folo" =>
        /\ FirstStop # 0 => Len(Requests) = FirstStop
        /\ FetchReturned =>
               ItemIds(rawData.items) =
                   IdsOfPages(IF FirstStop # 0 THEN FirstStop - 1 ELSE Len(Answers))

\* page 2 stopped the pagination and the items of page 1 were returned
C2_Witness ==
    /\ call = "folo" /\ pc = "done"
    /\ FirstStop = 2
    /\ rawData.items # <<>>

ConfigAbsent ==
    \/ call = "rss" /\ Falsy(env.RSS_URLS)
    \/ call = "folo" /\ env.LIST_ID = ""

\* C3: with its configuration absent (no list id, no feed-URL list) an
\* adapter's fetch issues no network request and returns no items.
C3_AbsentConfigNoRequest ==
    ConfigAbsent =>
        /\ Requests = <<>>
        /\ FetchReturned => rawData.items = <<>>

\* a fetch without configuration has returned
C3_Witness == ConfigAbsent /\ FetchReturned /\ call = "folo"

Registry(c) == c \in DOMAIN dataSources /\ dataSources[c].isArray

TaskReturned(c) == c \in DOMAIN task /\ task[c].pc \in {"returned", "stored"}

RECURSIVE SumLen(_)
SumLen(runs) == IF runs = <<>> THEN 0 ELSE Len(Head(runs).items) + SumLen(Tail(runs))

\* C4: fetchAndTransformDataForType on a registered category runs its sources
\* one after another; a source that throws does not reject the call, and the
\* unified items of every source that succeeded are all in the returned array.
C4_FailedSourceKeepsOthers ==
    \A c \in DOMAIN task :
        Registry(c) =>
            /\ task[c].pc # "rejected"
            /\ Len(task[c].got) = task[c].i - 1
            /\ TaskReturned(c) =>
                   /\ \A j \in 1..Len(task[c].got) :
                          ~task[c].got[j].threw =>
                              Range(task[c].got[j].items) \subseteq Range(task[c].out)
                   /\ Len(task[c].out) = SumLen(task[c].got)

\* a source threw between two sources that each gave items, and the call
\* returned
C4_Witness ==
    /\ TaskReturned("news")
    /\ Len(task["news"].got) = 3
    /\ task["news"].got[2].threw
    /\ task["news"].got[1].items # <<>>
    /\ task["news"].got[3].items # <<>>

\* C5: fetchAllData resolves after every category's call has settled, and the
\* mapping it returns has exactly one entry per registered key, holding that
\* category's own items.
C5_OneEntryPerCategory ==
    call = "fetchAllData" =>
        /\ \A c \in DOMAIN allUnifiedData :
               /\ c \in DOMAIN dataSources
               /\ allUnifiedData[c] = task[c].out
               /\ \A x \in Range(allUnifiedData[c]) : x.type = c
        /\ aggPc = "resolved" =>
               /\ DOMAIN allUnifiedData = DOMAIN dataSources
               /\ \A c \in DOMAIN task : task[c].pc = "stored"

\* fetchAllData resolved with items in two categories, a source having failed
C5_Witness ==
    /\ call = "fetchAllData" /\ aggPc = "resolved"
    /\ {"news", "policy"} \subseteq DOMAIN allUnifiedData
    /\ allUnifiedData["news"] # <<>>
    /\ allUnifiedData["policy"] # <<>>
    /\ allUnifiedData["news"] # allUnifiedData["policy"]
    /\ \E j \in 1..Len(task["news"].got) : task["news"].got[j].threw

UnknownCategory ==
    /\ call \in {"fetchDataByCategory", "fetchAndTransformDataForType"}
    /\ arg \notin DOMAIN dataSources

\* C6: a lookup of a category key that is not in the registry returns an empty
\* array and never raises, through fetchDataByCategory and through
\* fetchAndTransformDataForType.
C6_UnknownCategoryEmpty ==
    UnknownCategory =>
        /\ aggPc # "rejected"
        /\ aggPc = "resolved" => retItems = <<>>

\* the dates of a sequence never increase
NonIncreasing(dates) ==
    \A i, j \in 1..Len(dates) :
        i < j => /\ NewDate(dates[i]).valid /\ NewDate(dates[j]).valid
                 /\ NewDate(dates[i]).time >= NewDate(dates[j]).time

PubDates(items) == [i \in 1..Len(items) |-> items[i].pubDate]
PublishedDates(items) == [i \in 1..Len(items) |-> items[i].published_date]

\* C7: the array returned by fetchAndTransformDataForType, and the items
\* returned by the RSS adapter's fetch, are ordered non-increasing by publish
\* date.
C7_SortedByDateDescending ==
    /\ \A c \in DOMAIN task : TaskReturned(c) => NonIncreasing(PublishedDates(task[c].out))
    /\ (call = "rss" /\ FetchReturned) => NonIncreasing(PubDates(rawData.items))

\* a call returned three items or more of two sources, which it had collected
\* in another order
C7_Witness ==
    /\ TaskReturned("news")
    /\ Len(task["news"].out) >= 3
    /\ task["news"].out # task["news"].acc
    /\ task["news"].got[1].items # <<>>
    /\ task["news"].got[2].items # <<>>

\* C8: parseRSSFeed never throws, whatever the text.
C8_ParserNeverThrows ==
    \A n \in 1..Len(parsed) : ~parsed[n].threw

\* every block of the text has a date element
AllDated(xml) == \A n \in 1..Len(xml) : IsBlock(xml[n]) => Fields(xml[n]).pubDate # ""

\* an item without its publish timestamp
Undated(item) ==
    [title |-> item.title, link |-> item.link, description |-> item.description,
     author |-> item.author]

\* C9 as stated: two calls of parseRSSFeed on the same text return identical
\* ordered item lists, equal in every field, the publish timestamp included.
C9_IdenticalOutput ==
    Len(parsed) = 2 =>
        /\ parsed[1].threw = parsed[2].threw
        /\ parsed[1].items = parsed[2].items

\* C9 as amended: two calls on the same text both throw or both return; the
\* lists returned have the same length and agree item by item in every field
\* but the publish timestamp, which is either the same or, in each list, the
\* time of the call; when every block has a date element the lists are
\* identical.
C9_IdenticalButUndatedStamps ==
    Len(parsed) = 2 =>
        /\ parsed[1].threw = parsed[2].threw
        /\ Len(parsed[1].items) = Len(parsed[2].items)
        /\ \A i \in 1..Len(parsed[1].items) :
               /\ Undated(parsed[1].items[i]) = Undated(parsed[2].items[i])
               /\ \/ parsed[1].items[i].pubDate = parsed[2].items[i].pubDate
                  \/ /\ parsed[1].items[i].pubDate = toISOString(parsed[1].at)
                     /\ parsed[2].items[i].pubDate = toISOString(parsed[2].at)
        /\ AllDated(xmlText) => parsed[1].items = parsed[2].items

\* two calls at different times returned the items of a text whose blocks all
\* have a date element
C9_Witness ==
    /\ Len(parsed) = 2
    /\ parsed[1].at # parsed[2].at
    /\ AllDated(xmlText)
    /\ Len(parsed[1].items) = 2

\* C10: every UnifiedItem an adapter's transform produces has a non-empty
\* authors string, the joined names or else the "unknown" sentinel.
C10_AuthorsNonEmpty ==
    (call \in {"rss", "folo"} /\ pc = "done") =>
        \A x \in Range(unified) : x.authors # ""

\* what the parser reads of each element of a text: its tag, whether it is a
\* block, and the fields it extracts from it
Read(xml) ==
    [k \in 1..Len(xml) |->
        [tag |-> xml[k].tag, block |-> IsBlock(xml[k]), f |-> Fields(xml[k])]]

\* the block has a title and a link
HasBoth(r) == r.block /\ r.f.title # "" /\ r.f.link # ""

\* the tag of the blocks a call on this text scans to the end: the entries
\* when no item has a title and a link, the items otherwise
ScannedTag(rd) ==
    IF \E k \in 1..Len(rd) : rd[k].tag = "item" /\ HasBoth(rd[k])
    THEN "item" ELSE "entry"

\* a block the parser pushes an item for, whose date text is not a date
UnreadableDate(r) ==
    /\ HasBoth(r)
    /\ r.f.pubDate # ""
    /\ ~NewDate(r.f.pubDate).valid

\* C11: a block whose publish-date text cannot be read as a date is emitted
\* with the time of the call as its publish timestamp, as a block without a
\* date element is.
C11_UnreadableDateStampedNow ==
    LET rd == Read(xmlText)
    IN  \A n \in 1..Len(parsed) :
            \A k \in 1..Len(rd) :
                (UnreadableDate(rd[k]) /\ rd[k].tag = ScannedTag(rd)) =>
                    /\ ~parsed[n].threw
                    /\ \E i \in 1..Len(parsed[n].items) :
                           /\ parsed[n].items[i].link = rd[k].f.link
                           /\ parsed[n].items[i].pubDate = toISOString(parsed[n].at)

\* C12: in the RSS adapter's fetch a sleep separates any two consecutive
\* requests, whatever the outcome of the earlier one (success, non-success
\* status, transport error).
C12_SleepBetweenRequests ==
    call = "rss" =>
        \A i, j \in 1..Len(netLog) :
            (i < j /\ netLog[i].op = "GET" /\ netLog[j].op = "GET") =>
                \E k \in (i + 1)..(j - 1) : netLog[k].op = "sleep"

\* the oldest publishedAt among the entries of a page
OldestPublishedAt(data) ==
    CHOOSE p \in {data[i].publishedAt : i \in 1..Len(data)} :
        \A i \in 1..Len(data) : NewDate(p).time <= NewDate(data[i].publishedAt).time

\* C13: in a Folo adapter's fetch the first request carries no publishedAfter,
\* and every later request carries the oldest publishedAt among the entries of
\* the page before it.
C13_CursorIsOldestOfPreviousPage ==
    call = "folo" =>
        \A k \in 1..Len(Requests) :
            IF k = 1 THEN Requests[k].after = ""
            ELSE Requests[k].after = OldestPublishedAt(Answers[k - 1].resp.data)

\* C14 as stated: pagination stops at the first page that yields no entry
\* within the recency window: no page is requested after it.
C14_StopsAtFirstPageWithoutSurvivor ==
    call = "folo" =>
        \A k \in 1..Len(Answers) :
            (Answers[k].resp.kind = "ok" /\ SurvivingIds(Answers[k]) = <<>>) =>
                Len(Requests) = k

\* C14 as amended: pagination stops at the first page whose data list is
\* empty, before any filtering; a page that has entries, even none of them
\* within the recency window, does not stop it: the next page is requested
\* while the page count allows.
C14_StopsAtFirstEmptyPage ==
    call = "folo" =>
        \A k \in 1..Len(Answers) :
            /\ (Answers[k].resp.kind = "ok" /\ Answers[k].resp.data = <<>>) =>
                   Len(Requests) = k
            /\ (Answers[k].resp.kind = "ok" /\ Answers[k].resp.data # <<>>
                  /\ k < fetchPages /\ FetchReturned) =>
                   Len(Requests) > k

\* page 1 had entries, none within the recency window, page 2 was requested
\* and came back empty, and the fetch returned
C14_Witness ==
    /\ call = "folo" /\ pc = "done"
    /\ Len(Answers) = 2
    /\ Answers[1].resp.data # <<>>
    /\ SurvivingIds(Answers[1]) = <<>>
    /\ Answers[2].resp.kind = "ok" /\ Answers[2].resp.data = <<>>

\* C15: a Folo adapter's fetch issues at most fetchPages POST requests, one
\* after another: a request is issued only once the answer to the one before
\* it has been processed (and the sleep after it is over), at most one request
\* is outstanding, and no request follows a page that failed.
C15_AtMostNSequentialPosts ==
    call = "folo" =>
        /\ Len(Requests) <= fetchPages
        /\ Len(Answers) <= Len(Requests)
        /\ Len(Requests) <= Len(Answers) + 1
        /\ \A p \in 2..Len(netLog) :
               netLog[p].op = "POST" =>
                   /\ p > 2
                   /\ netLog[p - 1].op = "sleep"
                   /\ netLog[p - 2].op = "response"
        /\ \A k \in 1..Len(Answers) :
               Answers[k].resp.kind # "ok" => Len(Requests) = k

\* the two pages allowed were requested, the second one failed, and the fetch
\* returned
C15_Witness ==
    /\ call = "folo" /\ pc = "done"
    /\ fetchPages = 2
    /\ Len(Requests) = 2 /\ Len(Answers) = 2
    /\ Answers[2].resp.kind = "error"

\* the links of the blocks with this tag that have a title and a link, in
\* document order
LinksOf(rd, tag) ==
    LET pushed(r) == r.tag = tag /\ HasBoth(r)
        kept == SelectSeq(rd, pushed)
    IN  [i \in 1..Len(kept) |-> kept[i].f.link]

Links(items) == [i \in 1..Len(items) |-> items[i].link]

\* the block has an item of its own in what the call returned
EmittedBy(r, items) ==
    \E i \in 1..Len(items) :
        /\ items[i].title = decodeHTMLEntities(r.f.title)
        /\ items[i].link = r.f.link

\* C16 as stated: an <item> block is omitted if and only if it is missing both
\* its title and its link; a block that has at least one of the two is emitted.
C16_OmittedIffMissingBoth ==
    LET rd == Read(xmlText)
    IN  \A n \in 1..Len(parsed) :
            ~parsed[n].threw =>
                \A k \in 1..Len(rd) :
                    rd[k].tag = "item" =>
                        (EmittedBy(rd[k], parsed[n].items)
                           <=> (rd[k].f.title # "" \/ rd[k].f.link # ""))

\* C16 as amended: a block is omitted whenever it is missing its title or its
\* link: every item emitted comes from a block that has both, and a call that
\* returns emits exactly the blocks, of the kind it scans, that have both.
C16_OmittedIfMissingEither ==
    LET rd == Read(xmlText)
    IN  \A n \in 1..Len(parsed) :
            /\ \A i \in 1..Len(parsed[n].items) :
                   parsed[n].items[i].title # "" /\ parsed[n].items[i].link # ""
            /\ ~parsed[n].threw =>
                   Links(parsed[n].items) = LinksOf(rd, ScannedTag(rd))

\* a call returned the one item of a text with a block that has a title and a
\* link and a block that has a title only
C16_Witness ==
    /\ Len(parsed) >= 1
    /\ ~parsed[1].threw
    /\ Len(parsed[1].items) = 1
    /\ Len(xmlText) = 2
    /\ \E k \in 1..2 : /\ xmlText[k].tag = "item"
                       /\ Fields(xmlText[k]).title # ""
                       /\ Fields(xmlText[k]).link = ""

\* the parse of this text throws: a block the parser pushes an item for has a
\* date text that is not a date
ParseFails(rd) ==
    \E k \in 1..Len(rd) : rd[k].tag = ScannedTag(rd) /\ UnreadableDate(rd[k])

\* processing the feed answered by e fails: no success status, no body, or
\* the parse throws
FeedFails(e) == e.resp.kind # "ok" \/ ParseFails(Read(e.resp.body))

\* the day a block's item is dated: the day of its date text, or the day of
\* the call when it has none
DayOf(r, at) == IF r.f.pubDate = "" THEN at ELSE NewDate(r.f.pubDate).time

\* link and publish date of the items of a text read at day `at` that lie
\* within the recency window, block by block in document order
KeysOfBlocks(rd, tag, at) ==
    LET inWindow(r) == /\ r.tag = tag /\ HasBoth(r)
                       /\ at - DayOf(r, at) <= RssFilterDays
        kept == SelectSeq(rd, inWindow)
    IN  [i \in 1..Len(kept) |->
            [link |-> kept[i].f.link, pubDate |-> toISOString(DayOf(kept[i], at))]]

\* what the feed answered by e contributes: all of it, or nothing if it fails
KeysOfFeed(e, rd) ==
    IF e.resp.kind # "ok" \/ ParseFails(rd) THEN <<>>
    ELSE KeysOfBlocks(rd, ScannedTag(rd), e.at)

\* what the first n feeds answered contribute
RECURSIVE KeysOfFeeds(_)
KeysOfFeeds(n) ==
    IF n = 0 THEN <<>>
    ELSE KeysOfFeeds(n - 1) \o KeysOfFeed(Answers[n], Read(Answers[n].resp.body))

Keys(items) == [i \in 1..Len(items) |-> [link |-> items[i].link, pubDate |-> items[i].pubDate]]

\* C17: in the RSS adapter's fetch each feed adds to the accumulated items
\* either all of its items within the recency window or, when processing it
\* fails at any step, none: the items of the earlier feeds stay as they were.
C17_FeedAddsAllOrNothing ==
    call = "rss" => Keys(allItems) = KeysOfFeeds(Len(Answers))

\* a feed gave items, then a feed with a readable block followed by a block
\* of unreadable date failed, and the fetch returned
C17_Witness ==
    /\ call = "rss" /\ FetchReturned
    /\ Len(Answers) = 2
    /\ ~FeedFails(Answers[1])
    /\ allItems # <<>>
    /\ Answers[2].resp.kind = "ok"
    /\ Len(Answers[2].resp.body) = 2
    /\ ~UnreadableDate(Read(Answers[2].resp.body)[1])
    /\ UnreadableDate(Read(Answers[2].resp.body)[2])
    /\ Fields(Answers[2].resp.body[1]).pubDate = ""

=============================================================================
